---- MODULE Spec2Model ----
(***************************************************************************)
(* Hotel booking API: the store of rooms, bookings and payments, and the   *)
(* request handlers of hotelBookingApp (views.py, serializers.py,          *)
(* models.py).  Dates are day numbers, prices are whole currency units.    *)
(***************************************************************************)
EXTENDS Integers, FiniteSets, Sequences, TLC

\* ---- bounds of the model ----
MaxDay == 4
MaxBookings == 2
MaxRooms == 3

\* ---- the inputs requests are drawn from ----
Days == 1..MaxDay
RoomIds == {1, 2}
\* bookings are made by Users; payments and deletions are asked for by Requesters
Users == {"u1"}
Requesters == {"u1", "u2"}
Prices == {100, 150}
\* the amount and the payment_status a client puts in its request
ClientAmounts == {1}
ClientStatuses == {"completed"}
\* the workers that serve requests concurrently
Procs == {"p1", "p2"}

\* card numbers and CVVs are sequences of characters; 0..9 are digits, 10 is
\* a character that is not a digit
GoodCard == <<4, 1, 1, 1, 1, 1, 1, 1, 1, 1, 1, 1, 1, 2, 3, 4>>
BadCard == <<4, 1, 1, 1, 1, 1, 1, 1, 1, 1, 1, 10, 1, 2, 3, 4>>
GoodCvv == <<1, 2, 3>>
ShortCvv == <<1, 2>>
CardInputs == {<<GoodCard, GoodCvv>>, <<BadCard, GoodCvv>>, <<GoodCard, ShortCvv>>}

\* room numbers are sequences of characters too: the empty one is the blank
\* number of a room created without one, the others are given explicitly
Blank == <<>>
ExplicitNumbers == {<<2>>, <<1, 0, 1>>}

\* ---- program constants ----
ROOM_TYPES == {"single", "double", "suite"}
PAYMENT_STATUS == {"pending", "completed", "failed"}
DefaultPaymentStatus == "pending"
payment_successful == TRUE
\* a query parameter that is absent, and the fields of a worker with no request
NoDate == 0
NoType == "none"
NoRoom == 0

\* rooms          room id -> [room_number, room_type, price_per_night]  (models.Room)
\* bookings       the stored Booking rows                       (models.Booking)
\* payments       the stored Payment rows                       (models.Payment)
\* nextBookingId  the next id the store gives a Booking
\* last           the response to the latest request
\* inflight       the create-booking request each concurrent worker is in
\* saving         the Room.save call each concurrent worker is in
VARIABLES rooms, bookings, payments, nextBookingId, last, inflight, saving

vars == <<rooms, bookings, payments, nextBookingId, last, inflight, saving>>

\* ---- pure helpers ----

\* str(id): the decimal digits of a positive integer, as a sequence of characters
RECURSIVE str(_)
str(n) == IF n < 10 THEN <<n>> ELSE str(n \div 10) \o <<n % 10>>

isdigit(value) == \A i \in 1..Len(value) : value[i] < 10

validate_card_number(value) == isdigit(value) /\ Len(value) = 16

validate_card_cvv(value) == isdigit(value) /\ Len(value) = 3

MaskCard(value) == SubSeq(value, Len(value) - 3, Len(value))

\* Booking.save: the day difference, 0 nights charged as 1.  (NumNightsNoFloor
\* is the faulty variant without the floor.)
NumNightsNoFloor(ci, co) == co - ci
NumNights(ci, co) == IF co - ci = 0 THEN 1 ELSE co - ci

\* Booking.save: recompute the total price from the room's current price
BookingSave(b, rms) ==
    [b EXCEPT !.total_booking_price =
        NumNights(b.check_in_date, b.check_out_date) * rms[b.room].price_per_night]

ExactBookings(data, bks) ==
    {e \in bks : /\ e.room = data.room
                 /\ e.check_in_date = data.check_in_date
                 /\ e.check_out_date = data.check_out_date}

\* validate(): the bookings of the room with check_in < new check_out and
\* check_out > new check_in.  (Faulty variants: Inclusive counts touching
\* boundary days, ByCheckIn compares against the new check-in only.)
OverlappingBookingsInclusive(data, bks) ==
    {e \in bks : /\ e.room = data.room
                 /\ e.check_in_date <= data.check_out_date
                 /\ e.check_out_date >= data.check_in_date}
OverlappingBookingsByCheckIn(data, bks) ==
    {e \in bks : /\ e.room = data.room
                 /\ e.check_in_date < data.check_in_date
                 /\ e.check_out_date > data.check_in_date}
OverlappingBookings(data, bks) ==
    {e \in bks : /\ e.room = data.room
                 /\ e.check_in_date < data.check_out_date
                 /\ e.check_out_date > data.check_in_date}

\* BookingSerializer.validate.  (validateExactOnly is the faulty variant
\* without the overlap query.)
validateExactOnly(data, bks) ==
    IF data.check_in_date > data.check_out_date THEN "DateOrder"
    ELSE IF ExactBookings(data, bks) # {} THEN "AlreadyBooked"
    ELSE "Valid"
validate(data, bks) ==
    IF data.check_in_date > data.check_out_date THEN "DateOrder"
    ELSE IF ExactBookings(data, bks) # {} THEN "AlreadyBooked"
    ELSE IF OverlappingBookings(data, bks) # {} THEN "AlreadyBooked"
    ELSE "Valid"

\* serializer.save(user=...): payment_status is a read-only field, so the
\* value the client sent is dropped and the model's default is stored.
\* (NewBookingClientStatus is the faulty variant that stores the client's.)
NewBookingClientStatus(id, user, data, client_status, rms) ==
    BookingSave([id |-> id, user |-> user, room |-> data.room,
                 check_in_date |-> data.check_in_date,
                 check_out_date |-> data.check_out_date,
                 total_booking_price |-> 0,
                 payment_status |-> client_status], rms)
NewBooking(id, user, data, client_status, rms) ==
    BookingSave([id |-> id, user |-> user, room |-> data.room,
                 check_in_date |-> data.check_in_date,
                 check_out_date |-> data.check_out_date,
                 total_booking_price |-> 0,
                 payment_status |-> DefaultPaymentStatus], rms)

\* PaymentViewSet.create: "Check if the payment is already completed".
\* (AlreadyCompletedNever is the faulty variant without the check.)
AlreadyCompletedNever(booking) == FALSE
AlreadyCompleted(booking) == booking.payment_status = "completed"

\* PaymentViewSet.create passes booking and amount to serializer.save;
\* PaymentSerializer.create keeps the last four characters of the card number.
\* (NewPaymentClientAmount is the faulty variant that stores the client's amount.)
NewPaymentClientAmount(booking, card, client_amount, rms) ==
    [booking |-> booking.id, card_number |-> MaskCard(card),
     amount |-> client_amount]
NewPayment(booking, card, client_amount, rms) ==
    [booking |-> booking.id, card_number |-> MaskCard(card),
     amount |-> rms[booking.room].price_per_night]

\* RoomViewSet.available_rooms: the rooms of the bookings that meet the query
\* range, by check_in_date__lte and check_out_date__gte.  (BookedRoomsStartingInside
\* is the faulty variant that looks only at bookings starting in the range.)
BookedRoomsStartingInside(ci, co, bks) ==
    {e.room : e \in {b \in bks : b.check_in_date <= co /\ b.check_in_date >= ci}}
BookedRooms(ci, co, bks) ==
    {e.room : e \in {b \in bks : b.check_in_date <= co /\ b.check_out_date >= ci}}

AvailableRooms(ci, co, rtype, bks, rms) ==
    {r \in DOMAIN rms : /\ r \notin BookedRooms(ci, co, bks)
                     /\ (rtype # NoType => rms[r].room_type = rtype)}

Response(op, status, result) == [op |-> op, status |-> status, result |-> result]

Idle == [pc |-> "idle", room |-> NoRoom, check_in_date |-> NoDate,
         check_out_date |-> NoDate, status |-> "none"]

NotSaving == [pc |-> "idle", id |-> NoRoom, force_insert |-> FALSE]

\* the store holds the rooms of `ids`, each numbered after its id, and
\* nothing else
InitWith(ids) ==
    /\ rooms = [r \in ids |->
                    [room_number |-> str(r),
                     room_type |-> IF r = 1 THEN "single" ELSE "double",
                     price_per_night |-> 100]]
    /\ bookings = {}
    /\ payments = {}
    /\ nextBookingId = 1
    /\ last = Response("none", "none", {})
    /\ inflight = [p \in Procs |-> Idle]
    /\ saving = [p \in Procs |-> NotSaving]

\* a hotel with all the rooms, and a hotel with a single room
Init == InitWith(RoomIds)

InitOneRoom == InitWith({1})

InitNoRoom == InitWith({})

\* ---- requests executed one at a time ----

\* BoookingViewSet.create: is_valid, then perform_create.  client_status is the
\* payment_status the client sent; the field is read-only and is dropped.
CreateBookingReq(user, room, ci, co, client_status) ==
    LET data == [room |-> room, check_in_date |-> ci, check_out_date |-> co]
        v == validate(data, bookings)
    IN  /\ last' = Response("create_booking", IF v = "Valid" THEN "Created" ELSE v, {})
        /\ IF v = "Valid"
           THEN /\ nextBookingId <= MaxBookings
                /\ nextBookingId' = nextBookingId + 1
                /\ bookings' = bookings \cup
                        {NewBooking(nextBookingId, user, data, client_status, rooms)}
           ELSE UNCHANGED <<bookings, nextBookingId>>
        /\ UNCHANGED <<rooms, payments, inflight, saving>>

CreateBooking ==
    \E user \in Users, room \in DOMAIN rooms, ci \in Days, co \in Days,
       client_status \in ClientStatuses :
        CreateBookingReq(user, room, ci, co, client_status)

\* BoookingViewSet.destroy: the payment of the booking is deleted with it
\* (Payment.booking is on_delete=CASCADE).  (DestroyBookingReqKeepPayment is the
\* faulty variant that leaves the payment behind.)
DestroyBookingReqKeepPayment(user, id) ==
    LET found == {b \in bookings : b.id = id /\ b.user = user}
    IN  /\ IF found # {}
           THEN /\ bookings' = bookings \ found
                /\ last' = Response("destroy_booking", "Deleted", {})
           ELSE /\ UNCHANGED bookings
                /\ last' = Response("destroy_booking", "NotFound", {})
        /\ UNCHANGED <<rooms, payments, nextBookingId, inflight, saving>>
DestroyBookingReq(user, id) ==
    LET found == {b \in bookings : b.id = id /\ b.user = user}
    IN  /\ IF found # {}
           THEN /\ bookings' = bookings \ found
                /\ payments' = {p \in payments : p.booking # id}
                /\ last' = Response("destroy_booking", "Deleted", {})
           ELSE /\ UNCHANGED <<bookings, payments>>
                /\ last' = Response("destroy_booking", "NotFound", {})
        /\ UNCHANGED <<rooms, nextBookingId, inflight, saving>>

DestroyBooking ==
    \E user \in Requesters, id \in 1..MaxBookings : DestroyBookingReq(user, id)

\* PaymentViewSet.create.  client_amount is the amount the client sent; the
\* field is read-only and is dropped.
CreatePaymentReq(user, id, card, cvv, client_amount) ==
    LET found == {b \in bookings : b.id = id /\ b.user = user}
        booking == CHOOSE b \in found : TRUE
        resp(status) == Response("create_payment", status, {})
    IN  /\ IF found = {}
           THEN /\ last' = resp("NotFound")
                /\ UNCHANGED <<bookings, payments>>
           ELSE IF AlreadyCompleted(booking)
           THEN /\ last' = resp("AlreadyCompleted")
                /\ UNCHANGED <<bookings, payments>>
           ELSE IF ~(validate_card_number(card) /\ validate_card_cvv(cvv))
           THEN /\ last' = resp("InvalidCard")
                /\ UNCHANGED <<bookings, payments>>
           ELSE IF payment_successful
           THEN IF \E p \in payments : p.booking = id
                THEN /\ last' = resp("IntegrityError")
                     /\ UNCHANGED <<bookings, payments>>
                ELSE /\ payments' = payments \cup
                            {NewPayment(booking, card, client_amount, rooms)}
                     /\ bookings' = (bookings \ {booking}) \cup
                            {BookingSave([booking EXCEPT !.payment_status = "completed"],
                                         rooms)}
                     /\ last' = resp("PaymentCompleted")
           ELSE /\ bookings' = (bookings \ {booking}) \cup
                       {BookingSave([booking EXCEPT !.payment_status = "failed"], rooms)}
                /\ last' = resp("PaymentFailed")
                /\ UNCHANGED <<payments>>
        /\ UNCHANGED <<rooms, nextBookingId, inflight, saving>>

CreatePayment ==
    \E user \in Requesters, id \in 1..MaxBookings, card \in CardInputs,
       client_amount \in ClientAmounts :
        CreatePaymentReq(user, id, card[1], card[2], client_amount)

\* RoomViewSet (ModelViewSet, AllowAny): partial update of a room's price
UpdateRoomReq(room, price) ==
    /\ rooms' = [rooms EXCEPT ![room].price_per_night = price]
    /\ last' = Response("update_room", "Updated", {})
    /\ UNCHANGED <<bookings, payments, nextBookingId, inflight, saving>>

UpdateRoom == \E room \in DOMAIN rooms, price \in Prices : UpdateRoomReq(room, price)

\* RoomViewSet.available_rooms
AvailableRoomsReq(ci, co, rtype) ==
    /\ IF ci = NoDate \/ co = NoDate
       THEN last' = Response("available_rooms", "UsageError", {})
       ELSE last' = Response("available_rooms", "Ok",
                             AvailableRooms(ci, co, rtype, bookings, rooms))
    /\ UNCHANGED <<rooms, bookings, payments, nextBookingId, inflight, saving>>

QueryAvailableRooms ==
    \E ci \in Days \cup {NoDate}, co \in Days \cup {NoDate},
       rtype \in ROOM_TYPES \cup {NoType} :
        AvailableRoomsReq(ci, co, rtype)

\* ---- bookings and payments, one request at a time ----
Next ==
    \/ CreateBooking
    \/ DestroyBooking
    \/ CreatePayment

Spec == Init /\ [][Next]_vars

\* ---- bookings and availability queries, one request at a time ----
NextAvail ==
    \/ CreateBooking
    \/ DestroyBooking
    \/ QueryAvailableRooms

SpecAvail == Init /\ [][NextAvail]_vars

\* ---- bookings alone, one request at a time ----
NextBooking ==
    \/ CreateBooking
    \/ DestroyBooking

SpecBooking == Init /\ [][NextBooking]_vars

\* ---- the same requests in a hotel with a single room ----
SpecPay == InitOneRoom /\ [][Next]_vars

\* ---- bookings and payments while room prices change ----
NextPrice ==
    \/ CreateBooking
    \/ CreatePayment
    \/ UpdateRoom

SpecPrice == Init /\ [][NextPrice]_vars

\* ---- two create-booking requests running concurrently ----

\* BoookingViewSet.create, first half: serializer.is_valid(raise_exception=True)
IsValid(p) ==
    \E room \in DOMAIN rooms, ci \in Days, co \in Days :
        LET data == [room |-> room, check_in_date |-> ci, check_out_date |-> co]
            v == validate(data, bookings)
        IN  /\ inflight[p].pc = "idle"
            /\ IF v = "Valid"
               THEN /\ inflight' = [inflight EXCEPT ![p] =
                            [pc |-> "validated", room |-> room, check_in_date |-> ci,
                             check_out_date |-> co, status |-> "none"]]
                    /\ UNCHANGED last
               ELSE /\ inflight' = [inflight EXCEPT ![p] =
                            [pc |-> "done", room |-> room, check_in_date |-> ci,
                             check_out_date |-> co, status |-> v]]
                    /\ last' = Response("create_booking", v, {})
            /\ UNCHANGED <<rooms, bookings, payments, nextBookingId, saving>>

\* BoookingViewSet.create, second half: perform_create and the response
PerformCreate(p) ==
    \E user \in Users, client_status \in ClientStatuses :
        LET data == [room |-> inflight[p].room,
                     check_in_date |-> inflight[p].check_in_date,
                     check_out_date |-> inflight[p].check_out_date]
        IN  /\ inflight[p].pc = "validated"
            /\ nextBookingId <= MaxBookings
            /\ bookings' = bookings \cup
                    {NewBooking(nextBookingId, user, data, client_status, rooms)}
            /\ nextBookingId' = nextBookingId + 1
            /\ inflight' = [inflight EXCEPT ![p].pc = "done", ![p].status = "Created"]
            /\ last' = Response("create_booking", "Created", {})
            /\ UNCHANGED <<rooms, payments, saving>>

NextConc == \E p \in Procs : IsValid(p) \/ PerformCreate(p)

SpecConc == Init /\ [][NextConc]_vars

\* ---- rooms being created concurrently ----

\* the id the store gives the next Room row: ids are handed out in increasing
\* order, and no room is ever deleted here
NextRoomId(rms) == Cardinality(DOMAIN rms) + 1

\* room_number is unique=True: the store refuses a row whose number another
\* row already has
RoomNumberTaken(number, id, rms) ==
    \E r \in DOMAIN rms : r # id /\ rms[r].room_number = number

\* Room.save up to its first super().save(): the row is inserted with the
\* number it was given.  A room given a number is saved once ("normal save");
\* a room given none is inserted with a blank number and saved again later.
\* force_insert is the keyword argument of save(): True when the room is
\* made by Room.objects.create (the serializer of RoomViewSet.create), False
\* when save() is called with no argument (the admin site).
RoomSaveInsert(p, room_type, price, number, force_insert) ==
    LET id == NextRoomId(rooms)
        row == [room_number |-> number, room_type |-> room_type,
                price_per_night |-> price]
    IN  /\ saving[p].pc = "idle"
        /\ id <= MaxRooms
        /\ IF RoomNumberTaken(number, id, rooms)
           THEN /\ last' = Response("save_room", "IntegrityError", {})
                /\ UNCHANGED <<rooms, saving>>
           ELSE /\ rooms' = [r \in DOMAIN rooms \cup {id} |->
                                IF r = id THEN row ELSE rooms[r]]
                /\ IF number = Blank
                   THEN /\ saving' = [saving EXCEPT ![p] =
                                [pc |-> "inserted", id |-> id,
                                 force_insert |-> force_insert]]
                        /\ UNCHANGED last
                   ELSE /\ last' = Response("save_room", "Saved", {})
                        /\ UNCHANGED saving
        /\ UNCHANGED <<bookings, payments, nextBookingId, inflight>>

\* Room.save from "self.room_number = str(self.id)" on: the second
\* super().save(*args, **kwargs).  With force_insert it is a second INSERT of
\* the same id, which the store refuses; otherwise it is an UPDATE, which the
\* store refuses when another room already has this number.  No transaction
\* surrounds the two saves, so the inserted row stays as it is on a refusal.
RoomSaveNumber(p) ==
    LET id == saving[p].id
        number == str(id)
    IN  /\ saving[p].pc = "inserted"
        /\ IF saving[p].force_insert \/ RoomNumberTaken(number, id, rooms)
           THEN /\ last' = Response("save_room", "IntegrityError", {})
                /\ UNCHANGED rooms
           ELSE /\ rooms' = [rooms EXCEPT ![id].room_number = number]
                /\ last' = Response("save_room", "Saved", {})
        /\ saving' = [saving EXCEPT ![p] = NotSaving]
        /\ UNCHANGED <<bookings, payments, nextBookingId, inflight>>

RoomInsert(p) ==
    \E room_type \in ROOM_TYPES, number \in ExplicitNumbers \cup {Blank},
       force_insert \in BOOLEAN :
        RoomSaveInsert(p, room_type, 100, number, force_insert)

NextRoom == \E p \in Procs : RoomInsert(p) \/ RoomSaveNumber(p)

SpecRoom == InitNoRoom /\ [][NextRoom]_vars

\* ======================= the claims =======================

\* the overlap test of the specification, written out independently of the
\* queries of the code
HalfOpenOverlap(e, ci, co) == e.check_in_date < co /\ e.check_out_date > ci

\* the step is a create-booking request for (room, ci, co)
IsCreateBooking(room, ci, co) ==
    \E user \in Users, client_status \in ClientStatuses :
        CreateBookingReq(user, room, ci, co, client_status)

\* the step is a create-payment request of `user` for booking `id`
IsCreatePayment(user, id) ==
    \E card \in CardInputs, client_amount \in ClientAmounts :
        CreatePaymentReq(user, id, card[1], card[2], client_amount)

\* C1: with requests executed one at a time, no two distinct stored bookings
\* of the same room overlap (A.check_in < B.check_out and A.check_out > B.check_in).
C1_NoDoubleBooking ==
    \A a \in bookings, b \in bookings :
        (a.id # b.id /\ a.room = b.room)
            => ~HalfOpenOverlap(a, b.check_in_date, b.check_out_date)

\* two bookings of one room are stored, one of them paid
C1_Witness ==
    \E a \in bookings, b \in bookings :
        /\ a.id # b.id
        /\ a.room = b.room
        /\ a.payment_status = "completed"

\* C2: two concurrent create-booking requests for the same room and the same
\* dates, both finished: exactly one was created and the other got the
\* conflict error, and exactly one booking for these dates is stored.
C2_ExactlyOneSucceeds ==
    \A p \in Procs, q \in Procs :
        (/\ p # q
         /\ inflight[p].pc = "done"
         /\ inflight[q].pc = "done"
         /\ inflight[p].room \in RoomIds
         /\ inflight[p].room = inflight[q].room
         /\ inflight[p].check_in_date = inflight[q].check_in_date
         /\ inflight[p].check_out_date = inflight[q].check_out_date
         /\ inflight[p].check_in_date < inflight[p].check_out_date)
        => /\ {inflight[p].status, inflight[q].status} = {"Created", "AlreadyBooked"}
           /\ Cardinality({b \in bookings :
                    /\ b.room = inflight[p].room
                    /\ b.check_in_date = inflight[p].check_in_date
                    /\ b.check_out_date = inflight[p].check_out_date}) = 1

\* the step answered with the conflict error and stored nothing
ConflictRejected == last'.status = "AlreadyBooked" /\ bookings' = bookings

\* C3 as stated: a create-booking request for room r and dates ci, co is
\* rejected with the conflict error, and leaves the stored bookings unchanged,
\* whenever a stored booking of r has check_in < co and check_out > ci.
\* (Every step that is such a request is a conflict rejection.)
C3_Original ==
    [][ConflictRejected \/
       \A e \in bookings, ci \in Days, co \in Days :
          HalfOpenOverlap(e, ci, co) => ~IsCreateBooking(e.room, ci, co)]_vars

\* C3 amended: a create-booking request with ci < co is rejected with the
\* conflict error whenever a stored booking of its room has check_in < co and
\* check_out > ci, and the rejected request leaves the stored bookings unchanged.
C3_OverlapRejected ==
    [][ConflictRejected \/
       \A e \in bookings, ci \in Days :
          \A co \in (ci + 1)..MaxDay :
             HalfOpenOverlap(e, ci, co) => ~IsCreateBooking(e.room, ci, co)]_vars

\* a request was just rejected as a conflict while a proper range is stored
C3_Witness ==
    /\ last = Response("create_booking", "AlreadyBooked", {})
    /\ \E e \in bookings : e.check_in_date < e.check_out_date

\* the request touches a stored booking of its room at a boundary day and
\* overlaps no stored booking of that room
Touching(room, ci, co) ==
    /\ \E e \in bookings :
          e.room = room /\ (e.check_out_date = ci \/ e.check_in_date = co)
    /\ ~\E e \in bookings : e.room = room /\ HalfOpenOverlap(e, ci, co)

\* the step stored a new booking for (room, ci, co) and answered "created"
Accepted(room, ci, co) ==
    /\ last'.status = "Created"
    /\ \E b \in bookings' :
          /\ b \notin bookings
          /\ b.room = room
          /\ b.check_in_date = ci
          /\ b.check_out_date = co
    /\ bookings \subseteq bookings'

\* C4 as stated: a create-booking request whose check-in equals the check-out
\* of a stored booking of its room (or whose check-out equals its check-in),
\* and that overlaps no booking of the room, is accepted and persisted.
C4_Original ==
    [][\A room \in RoomIds, ci \in Days, co \in Days :
        (Touching(room, ci, co) /\ IsCreateBooking(room, ci, co))
            => Accepted(room, ci, co)]_vars

\* C4 amended: a create-booking request with check_in < check_out whose
\* check-in equals the check-out of a stored booking of its room (or whose
\* check-out equals its check-in), and that overlaps no booking of the room,
\* is accepted and persisted.
C4_TouchingAccepted ==
    [][\A room \in RoomIds, ci \in Days :
        \A co \in (ci + 1)..MaxDay :
            (Touching(room, ci, co) /\ IsCreateBooking(room, ci, co))
                => Accepted(room, ci, co)]_vars

\* a booking was just created next to one that ends on its check-in day
C4_Witness ==
    /\ last = Response("create_booking", "Created", {})
    /\ \E a \in bookings, b \in bookings :
          /\ a.room = b.room
          /\ a.id < b.id
          /\ a.check_in_date < a.check_out_date
          /\ a.check_out_date = b.check_in_date
          /\ b.check_in_date < b.check_out_date

\* C5: every stored booking has check_in strictly before check_out (a request
\* with check_in = check_out or check_in > check_out stores nothing).
C5_StrictDates ==
    \A b \in bookings : b.check_in_date < b.check_out_date

\* C6: the available-rooms query for (ci, co, type) returns exactly the rooms
\* with no booking having check_in < co and check_out > ci, restricted to the
\* requested type when one is given.
C6_ExactAvailability ==
    [][\A ci \in Days, co \in Days, rtype \in ROOM_TYPES \cup {NoType} :
        AvailableRoomsReq(ci, co, rtype)
            => last'.result =
                 {r \in DOMAIN rooms :
                    /\ ~\E b \in bookings : b.room = r /\ HalfOpenOverlap(b, ci, co)
                    /\ (rtype # NoType => rooms[r].room_type = rtype)}]_vars

\* each booking has at most one Payment record
AtMostOnePayment ==
    \A p1 \in payments, p2 \in payments : p1.booking = p2.booking => p1 = p2

\* C7 as stated: a create-payment request made while the booking is completed
\* is rejected with the conflict error and creates nothing, and a booking
\* never has more than one Payment record.
C7_Original ==
    /\ [][\A user \in Requesters, id \in 1..MaxBookings :
            (/\ \E b \in bookings : b.id = id /\ b.payment_status = "completed"
             /\ IsCreatePayment(user, id))
            => (last'.status = "AlreadyCompleted" /\ payments' = payments)]_vars
    /\ []AtMostOnePayment

\* C7 amended: a create-payment request made while the booking is completed
\* creates nothing, and is rejected with the conflict error when it comes from
\* the booking's owner (any other user gets the not-found error); a booking
\* never has more than one Payment record.
C7_PaidOnce ==
    /\ [][\A user \in Requesters, id \in 1..MaxBookings :
            (/\ \E b \in bookings : b.id = id /\ b.payment_status = "completed"
             /\ IsCreatePayment(user, id))
            => /\ payments' = payments
               /\ bookings' = bookings
               /\ last'.status =
                    IF \E b \in bookings : b.id = id /\ b.user = user
                    THEN "AlreadyCompleted" ELSE "NotFound"]_vars
    /\ []AtMostOnePayment

\* a second payment request for a paid booking was just refused
C7_Witness ==
    /\ last = Response("create_payment", "AlreadyCompleted", {})
    /\ \E b \in bookings :
          /\ b.payment_status = "completed"
          /\ \E p \in payments : p.booking = b.id

\* C8: a booking is created with payment_status pending, whatever the client
\* sent, and the only changes of a booking's payment_status are pending to
\* completed and pending to failed.
C8_StatusTransitions ==
    [][/\ \A c \in bookings' :
            (~\E b \in bookings : b.id = c.id) => c.payment_status = "pending"
       /\ \A b \in bookings, c \in bookings' :
            (b.id = c.id /\ b.payment_status # c.payment_status)
                => (b.payment_status = "pending"
                    /\ c.payment_status \in {"completed", "failed"})]_vars

\* one booking is paid and another was created after it, still pending
C8_Witness ==
    \E a \in bookings, b \in bookings :
        /\ a.payment_status = "completed"
        /\ b.payment_status = "pending"

\* the number of nights the specification charges for
ChargedNights(b) ==
    IF b.check_out_date - b.check_in_date = 0 THEN 1
    ELSE b.check_out_date - b.check_in_date

\* C9: every booking saved in a step (created, or saved again by a payment)
\* has total_booking_price = n * the room's price_per_night at that save, n
\* being check_out - check_in, or 1 when that is 0.
C9_PriceOnSave ==
    [][\A c \in bookings' :
        c \notin bookings
            => c.total_booking_price
                 = ChargedNights(c) * rooms[c.room].price_per_night]_vars

\* a 3-night stay at 100 costs 300, a 0-night stay is charged one night, and
\* one of them was saved again by its payment
C9_Witness ==
    \E a \in bookings, b \in bookings :
        /\ a.check_out_date - a.check_in_date = 3
        /\ a.total_booking_price = 300
        /\ b.check_out_date = b.check_in_date
        /\ b.total_booking_price \in Prices
        /\ (a.payment_status = "completed" \/ b.payment_status = "completed")

\* C10: every Payment record created by a step has amount equal to the
\* price_per_night of its booking's room at that step, whatever amount the
\* client sent.
C10_AmountIsRoomPrice ==
    [][\A p \in payments' :
        p \notin payments
            => \E b \in bookings :
                  /\ b.id = p.booking
                  /\ p.amount = rooms[b.room].price_per_night]_vars

\* a payment was charged at a price set after the booking was made
C10_Witness ==
    \E p \in payments, b \in bookings :
        /\ b.id = p.booking
        /\ p.amount = 150
        /\ p.amount \notin ClientAmounts
        /\ last = Response("create_payment", "PaymentCompleted", {})

\* no two rooms share a room_number
UniqueRoomNumbers ==
    \A r1 \in DOMAIN rooms, r2 \in DOMAIN rooms :
        rooms[r1].room_number = rooms[r2].room_number => r1 = r2

\* C11: creating a Room without an explicit number inserts the row and ends
\* with room_number equal to the string form of the generated id, and in
\* every reachable state no two rooms share a room_number.
C11_RoomNumbers ==
    /\ [][\A p \in Procs :
            /\ (\E room_type \in ROOM_TYPES, force_insert \in BOOLEAN :
                    RoomSaveInsert(p, room_type, 100, Blank, force_insert))
                => saving'[p].pc = "inserted"
            /\ RoomSaveNumber(p)
                => rooms'[saving[p].id].room_number = str(saving[p].id)]_vars
    /\ []UniqueRoomNumbers

\* C12: for any range with check_in < check_out and any type filter, a
\* create-booking request for a room that the available-rooms query returns
\* for that range in the same state is accepted and persisted.
C12_AvailableIsBookable ==
    [][\A room \in RoomIds, ci \in Days :
        \A co \in (ci + 1)..MaxDay :
            (/\ IsCreateBooking(room, ci, co)
             /\ \E rtype \in ROOM_TYPES \cup {NoType} :
                    room \in AvailableRooms(ci, co, rtype, bookings, rooms))
                => Accepted(room, ci, co)]_vars

\* a booking was just created for a room that already had one, for a range
\* the older booking keeps clear of, so that the query returned the room
C12_Witness ==
    /\ last = Response("create_booking", "Created", {})
    /\ \E a \in bookings, b \in bookings :
          /\ a.room = b.room
          /\ a.id < b.id
          /\ b.check_in_date < b.check_out_date
          /\ b.room \in AvailableRooms(b.check_in_date, b.check_out_date, NoType,
                                       {a}, rooms)

\* C13: between requests, a booking has payment_status completed exactly when
\* a Payment record references it, and every Payment record references a
\* stored booking (deleting a booking removes its Payment).
C13_PaidIffPayment ==
    /\ \A b \in bookings :
          b.payment_status = "completed" <=> \E p \in payments : p.booking = b.id
    /\ \A p \in payments : \E b \in bookings : b.id = p.booking

\* a booking was just deleted, and of the bookings made the one that is left
\* is paid and has its Payment record
C13_Witness ==
    /\ last = Response("destroy_booking", "Deleted", {})
    /\ nextBookingId > MaxBookings
    /\ \E b \in bookings :
          /\ b.payment_status = "completed"
          /\ \E p \in payments : p.booking = b.id

====
